---- MODULE Spec2Model ----
(***************************************************************************)
(* PollReader (src/PollReader.py): a reader of a comma-separated poll file *)
(* and its three queries.                                                  *)
(*                                                                         *)
(* Text is modelled as TLA+ strings, cut with SubSeq and joined with \o.   *)
(* A poll result (a Python float) is an integer number of tenths of a      *)
(* percentage point: the modelled input lines carry at most one fractional *)
(* digit, no exponent and no inf/nan literal, so the value is exact.  A    *)
(* mean or a difference of means is an exact reduced fraction of           *)
(* percentage points; binary rounding of the division is not modelled.     *)
(***************************************************************************)
EXTENDS Integers, Sequences, FiniteSets, TLC

\* ------------------------------------------------------------------ bounds

\* A short input file holds at most MaxLines lines (the first is the header).
MaxLines == 3

\* build_data_dict is called at most MaxBuilds times on one PollReader.
MaxBuilds == 2

\* A long input file holds the header, Window - 1 + e first rows and f last
\* rows, for e, f in 0..MaxExtra.
MaxExtra == 2

\* ------------------------------------------------------- program constants

\* The number of polls in the earliest and in the latest window.
Window == 30

\* The number of columns a row must have.
NumFields == 6

Keys == {"month", "date", "sample", "sample type", "Harris result", "Trump result"}

\* ---------------------------------------------------------------- str ops

Char(s, i) == SubSeq(s, i, i)

IsSpace(c) == c \in {" ", "\n", "\t", "\r"}

RECURSIVE LStrip(_)
LStrip(s) ==
    IF s # "" /\ IsSpace(Char(s, 1)) THEN LStrip(SubSeq(s, 2, Len(s))) ELSE s

RECURSIVE RStrip(_)
RStrip(s) ==
    IF s # "" /\ IsSpace(Char(s, Len(s))) THEN RStrip(SubSeq(s, 1, Len(s) - 1)) ELSE s

\* str.strip(): leading and trailing whitespace removed.
Strip(s) == RStrip(LStrip(s))

\* The position of the first c in s, 0 when there is none.
Find(s, c) ==
    IF \E i \in 1..Len(s) : Char(s, i) = c
    THEN CHOOSE i \in 1..Len(s) :
            Char(s, i) = c /\ \A j \in 1..(i - 1) : Char(s, j) # c
    ELSE 0

\* str.split(sep): the pieces between the separators; "" splits to <<"">>.
RECURSIVE Split(_, _)
Split(s, sep) ==
    LET i == Find(s, sep)
    IN  IF i = 0 THEN <<s>>
        ELSE <<SubSeq(s, 1, i - 1)>> \o Split(SubSeq(s, i + 1, Len(s)), sep)

DigitChar(d) == SubSeq("0123456789", d + 1, d + 1)

IsDigit(c) == \E d \in 0..9 : DigitChar(d) = c

DigitVal(c) == CHOOSE d \in 0..9 : DigitChar(d) = c

\* The digit strings int() and float() accept: digits, with single
\* underscores allowed between two digits.
IsDigitGroup(s) ==
    /\ s # ""
    /\ \A i \in 1..Len(s) : IsDigit(Char(s, i)) \/ Char(s, i) = "_"
    /\ IsDigit(Char(s, 1))
    /\ IsDigit(Char(s, Len(s)))
    /\ \A i \in 1..(Len(s) - 1) : ~(Char(s, i) = "_" /\ Char(s, i + 1) = "_")

RECURSIVE DigitsValue(_)
DigitsValue(s) ==
    IF s = "" THEN 0
    ELSE LET c == Char(s, Len(s))
             rest == SubSeq(s, 1, Len(s) - 1)
         IN  IF c = "_" THEN DigitsValue(rest)
             ELSE 10 * DigitsValue(rest) + DigitVal(c)

HasSign(t) == t # "" /\ Char(t, 1) \in {"+", "-"}

Unsigned(t) == IF HasSign(t) THEN SubSeq(t, 2, Len(t)) ELSE t

SignOf(t) == IF t # "" /\ Char(t, 1) = "-" THEN -1 ELSE 1

\* int(s): ok is FALSE where Python raises ValueError.
ParseInt(s) ==
    LET t == Strip(s)
        body == Unsigned(t)
    IN  IF IsDigitGroup(body)
        THEN [ok |-> TRUE, val |-> SignOf(t) * DigitsValue(body)]
        ELSE [ok |-> FALSE, val |-> 0]

\* float(s), in tenths: ok is FALSE where Python raises ValueError.
ParseFloat(s) ==
    LET t == Strip(s)
        body == Unsigned(t)
        dot == Find(body, ".")
        ip == IF dot = 0 THEN body ELSE SubSeq(body, 1, dot - 1)
        fp == IF dot = 0 THEN "" ELSE SubSeq(body, dot + 1, Len(body))
        valid == IF dot = 0 THEN IsDigitGroup(body)
                 ELSE /\ ip = "" \/ IsDigitGroup(ip)
                      /\ fp = "" \/ IsDigitGroup(fp)
                      /\ ~(ip = "" /\ fp = "")
        tenth == IF fp = "" THEN 0 ELSE DigitVal(Char(fp, 1))
    IN  IF valid
        THEN [ok |-> TRUE, val |-> SignOf(t) * (10 * DigitsValue(ip) + tenth)]
        ELSE [ok |-> FALSE, val |-> 0]

RECURSIVE IntStr(_)
IntStr(n) ==
    IF n < 10 THEN DigitChar(n) ELSE IntStr(n \div 10) \o DigitChar(n % 10)

\* f"{v:.1f}" of a value held in tenths.
Format1f(v) ==
    LET a == IF v < 0 THEN -v ELSE v
    IN  (IF v < 0 THEN "-" ELSE "") \o IntStr(a \div 10) \o "." \o DigitChar(a % 10)

\* ------------------------------------------------------------- fractions

RECURSIVE GCD(_, _)
GCD(a, b) == IF b = 0 THEN a ELSE GCD(b, a % b)

Abs(x) == IF x < 0 THEN -x ELSE x

\* The fraction n/d (d > 0) in lowest terms.
Frac(n, d) ==
    LET g == GCD(Abs(n), d)
    IN  [num |-> n \div g, den |-> d \div g]

Zero == Frac(0, 1)

FracSub(a, b) == Frac(a.num * b.den - b.num * a.den, a.den * b.den)

RECURSIVE Sum(_)
Sum(s) == IF s = <<>> THEN 0 ELSE Head(s) + Sum(Tail(s))

\* sum(xs) / len(xs) for values in tenths, in percentage points.
Mean(s) == Frac(Sum(s), 10 * Len(s))

\* xs[a:b] for 0 <= a, on a 1-based sequence.
PySlice(s, a, b) ==
    LET hi == IF b < Len(s) THEN b ELSE Len(s)
    IN  IF a >= hi THEN <<>> ELSE SubSeq(s, a + 1, hi)

\* ------------------------------------------------------------ input files

Header == "month,date,sample,sample type,Harris result,Trump result\n"

\* Well-formed rows.
RowLV == " Sep , 1 , 1_000 ,Likely Voters, 49.5 ,45\n"
RowRV == "Aug,30,200,Registered Voters,57.0,46.0\n"
RowLower == "Aug,2,50,likely voters,40.0,57.0\n"

\* Rows with a field count other than six.
RowShort == "Sep,4,90,Likely Voters,50.0\n"
RowLong == "Sep,5,1,000,Likely Voters,50.0,44.0\n"
Blank == "\n"

\* Six-field rows with a value int() or float() rejects.
RowBadDate == "Sep,1.5,100,Likely Voters,50.0,44.0\n"
RowBadSample == "Sep,6,n/a,Likely Voters,58.0,44.0\n"
RowBadHarris == "Sep,7,100,Likely Voters,abc,44.0\n"
RowBadTrump == "Sep,8,100,Likely Voters,51.0,\n"

LineSet ==
    {Header, RowLV, RowRV, RowLower, RowShort, RowLong, Blank,
     RowBadDate, RowBadSample, RowBadHarris, RowBadTrump}

\* The rows the long files are made of.
LongRows == {RowLV, RowRV, RowBadTrump}

Repeat(x, n) == [i \in 1..n |-> x]

ShortFiles == UNION {[1..n -> LineSet] : n \in 0..MaxLines}

LongFiles ==
    {<<Header>> \o Repeat(x, Window - 1 + e) \o Repeat(y, f) :
        x \in LongRows, y \in LongRows, e \in 0..MaxExtra, f \in 0..MaxExtra}

\* What open() finds at the path: a readable file, no file, or a file that
\* cannot be read (no permission, a directory, bytes that do not decode).
FileStates == {"present", "absent", "denied", "directory", "undecodable"}

\* The exception open() or readlines() raises, "none" for a readable file.
OpenError(st) ==
    CASE st = "present" -> "none"
      [] st = "absent" -> "FileNotFoundError"
      [] st = "denied" -> "PermissionError"
      [] st = "directory" -> "IsADirectoryError"
      [] st = "undecodable" -> "UnicodeDecodeError"

\* ------------------------------------------------------------------ state

VARIABLES
    fileState,   \* what is at the path given to the constructor
    fileLines,   \* the lines of the file, when it is readable
    pc,          \* "new": not constructed; "failed": the constructor raised;
                 \* "idle": between calls; "build": inside build_data_dict
    raw_data,    \* self.raw_data
    data_dict,   \* self.data_dict
    idx,         \* the position of build_data_dict's loop in raw_data (1-based)
    builds,      \* the number of build_data_dict calls that have returned
    firstTable,  \* data_dict as the first build_data_dict left it
    last         \* the outcome of the last call: what it returned or raised

vars == <<fileState, fileLines, pc, raw_data, data_dict, idx, builds, firstTable, last>>

EmptyDict == [k \in Keys |-> <<>>]

\* The outcome of a call: the exception it raised ("none": it returned), and
\* what it returned, a string or a pair of fractions.
Outcome(op, raised, str, pair) ==
    [op |-> op, raised |-> raised, str |-> str, pair |-> pair]

NoPair == <<Zero, Zero>>

NoOutcome == Outcome("none", "none", "", NoPair)

Init ==
    /\ fileState \in FileStates
    /\ fileLines \in IF fileState = "present" THEN ShortFiles \cup LongFiles ELSE {<<>>}
    /\ pc = "new"
    /\ raw_data = <<>>
    /\ data_dict = EmptyDict
    /\ idx = 0
    /\ builds = 0
    /\ firstTable = EmptyDict
    /\ last = NoOutcome

\* ------------------------------------------------------------ constructor

\* PollReader(filename): only FileNotFoundError is caught.
Construct ==
    /\ pc = "new"
    /\ LET err == OpenError(fileState)
       IN  IF err = "none"
           THEN /\ raw_data' = fileLines
                /\ data_dict' = EmptyDict
                /\ pc' = "idle"
                /\ last' = Outcome("__init__", "none", "", NoPair)
           ELSE IF err = "FileNotFoundError"
           THEN /\ raw_data' = <<>>
                /\ data_dict' = EmptyDict
                /\ pc' = "idle"
                /\ last' = Outcome("__init__", "none", "", NoPair)
           ELSE /\ pc' = "failed"
                /\ last' = Outcome("__init__", err, "", NoPair)
                /\ UNCHANGED <<raw_data, data_dict>>
    /\ UNCHANGED <<fileState, fileLines, idx, builds, firstTable>>

\* -------------------------------------------------------- build_data_dict

RECURSIVE StripAll(_)
StripAll(fs) == IF fs = <<>> THEN <<>> ELSE <<Strip(Head(fs))>> \o StripAll(Tail(fs))

\* seperated = [s.strip() for s in i.strip().split(',')]
SplitFields(line) == StripAll(Split(Strip(line), ","))

Put(d, k, v) == [d EXCEPT ![k] = Append(@, v)]

\* ProcessRow with the sample type read from the sample column.
ProcessRowShifted(d, line) ==
    LET f == SplitFields(line)
    IN  IF Len(f) # NumFields THEN d
        ELSE
        LET d1 == Put(d, "month", f[1])
            date == ParseInt(f[2])
            d2 == Put(d1, "date", date.val)
            sample == ParseInt(f[3])
            d3 == Put(d2, "sample", sample.val)
            d4 == Put(d3, "sample type", f[3])
            harris == ParseFloat(f[5])
            d5 == Put(d4, "Harris result", harris.val)
            trump == ParseFloat(f[6])
            d6 == Put(d5, "Trump result", trump.val)
        IN  IF ~date.ok THEN d1
            ELSE IF ~sample.ok THEN d2
            ELSE IF ~harris.ok THEN d4
            ELSE IF ~trump.ok THEN d5
            ELSE d6

\* One pass of the loop body over a raw line.  The appends run in order and
\* the first failing conversion leaves the loop body through the except
\* clause: what was appended before it stays.
ProcessRow(d, line) ==
    LET f == SplitFields(line)
    IN  IF Len(f) # NumFields THEN d
        ELSE
        LET d1 == Put(d, "month", f[1])
            date == ParseInt(f[2])
            d2 == Put(d1, "date", date.val)
            sample == ParseInt(f[3])
            d3 == Put(d2, "sample", sample.val)
            d4 == Put(d3, "sample type", f[4])
            harris == ParseFloat(f[5])
            d5 == Put(d4, "Harris result", harris.val)
            trump == ParseFloat(f[6])
            d6 == Put(d5, "Trump result", trump.val)
        IN  IF ~date.ok THEN d1
            ELSE IF ~sample.ok THEN d2
            ELSE IF ~harris.ok THEN d4
            ELSE IF ~trump.ok THEN d5
            ELSE d6

\* The call: the loop runs over raw_data[1:], the lines after the first.
BuildCall ==
    /\ pc = "idle"
    /\ builds < MaxBuilds
    /\ pc' = "build"
    /\ idx' = 2
    /\ last' = NoOutcome
    /\ UNCHANGED <<fileState, fileLines, raw_data, data_dict, builds, firstTable>>

\* One iteration of the loop.
BuildRow ==
    /\ pc = "build"
    /\ idx <= Len(raw_data)
    /\ data_dict' = ProcessRow(data_dict, raw_data[idx])
    /\ idx' = idx + 1
    /\ UNCHANGED <<fileState, fileLines, pc, raw_data, builds, firstTable, last>>

\* The loop is exhausted and build_data_dict returns.
BuildReturn ==
    /\ pc = "build"
    /\ idx > Len(raw_data)
    /\ pc' = "idle"
    /\ builds' = builds + 1
    /\ firstTable' = IF builds = 0 THEN data_dict ELSE firstTable
    /\ last' = Outcome("build_data_dict", "none", "", NoPair)
    /\ UNCHANGED <<fileState, fileLines, raw_data, data_dict, idx>>

\* ---------------------------------------------------------------- queries

\* max(xs) of a non-empty list: the first of its greatest elements.
RECURSIVE MaxOf(_)
MaxOf(xs) ==
    IF Len(xs) = 1 THEN xs[1]
    ELSE LET m == MaxOf(SubSeq(xs, 1, Len(xs) - 1))
         IN  IF xs[Len(xs)] > m THEN xs[Len(xs)] ELSE m

\* x in xs
Contains(xs, x) == \E i \in 1..Len(xs) : xs[i] = x

\* highest_polling_candidate with the single-candidate tests made before the
\* test for both.
highest_polling_candidate_harris_first(d) ==
    LET harris_results == d["Harris result"]
        trump_results == d["Trump result"]
        all_results == harris_results \o trump_results
    IN  IF all_results = <<>>
        THEN Outcome("highest_polling_candidate", "none", "No polling data available", NoPair)
        ELSE
        LET max_result == MaxOf(all_results)
            result_str == Format1f(max_result) \o "%"
        IN  Outcome("highest_polling_candidate", "none",
                IF Contains(harris_results, max_result) THEN "Harris: " \o result_str
                ELSE IF Contains(trump_results, max_result) THEN "Trump: " \o result_str
                ELSE "Error in processing",
                NoPair)

\* highest_polling_candidate without the test for an empty table: max() of
\* an empty list raises ValueError.
highest_polling_candidate_no_guard(d) ==
    LET harris_results == d["Harris result"]
        trump_results == d["Trump result"]
        all_results == harris_results \o trump_results
    IN  IF all_results = <<>>
        THEN Outcome("highest_polling_candidate", "ValueError", "", NoPair)
        ELSE
        LET max_result == MaxOf(all_results)
            harris_has_max == Contains(harris_results, max_result)
            trump_has_max == Contains(trump_results, max_result)
            result_str == Format1f(max_result) \o "%"
        IN  Outcome("highest_polling_candidate", "none",
                IF harris_has_max /\ trump_has_max THEN result_str \o " (EVEN)"
                ELSE IF harris_has_max THEN "Harris: " \o result_str
                ELSE IF trump_has_max THEN "Trump: " \o result_str
                ELSE "Error in processing",
                NoPair)

highest_polling_candidate(d) ==
    LET harris_results == d["Harris result"]
        trump_results == d["Trump result"]
        all_results == harris_results \o trump_results
    IN  IF all_results = <<>>
        THEN Outcome("highest_polling_candidate", "none", "No polling data available", NoPair)
        ELSE
        LET max_result == MaxOf(all_results)
            harris_has_max == Contains(harris_results, max_result)
            trump_has_max == Contains(trump_results, max_result)
            result_str == Format1f(max_result) \o "%"
        IN  Outcome("highest_polling_candidate", "none",
                IF harris_has_max /\ trump_has_max THEN result_str \o " (EVEN)"
                ELSE IF harris_has_max THEN "Harris: " \o result_str
                ELSE IF trump_has_max THEN "Trump: " \o result_str
                ELSE "Error in processing",
                NoPair)

\* The loop of likely_voter_polling_average from index i (1-based) on, with
\* the scores gathered so far: harris_results[i] and trump_results[i] raise
\* IndexError past the end of their list.
RECURSIVE LikelyVoterScan(_, _, _, _)
LikelyVoterScan(d, i, harris_scores, trump_scores) ==
    IF i > Len(d["sample type"])
    THEN [raised |-> "none", harris |-> harris_scores, trump |-> trump_scores]
    ELSE IF Strip(d["sample type"][i]) # "Likely Voters"
    THEN LikelyVoterScan(d, i + 1, harris_scores, trump_scores)
    ELSE IF i > Len(d["Harris result"]) \/ i > Len(d["Trump result"])
    THEN [raised |-> "IndexError", harris |-> harris_scores, trump |-> trump_scores]
    ELSE LikelyVoterScan(d, i + 1, Append(harris_scores, d["Harris result"][i]),
                         Append(trump_scores, d["Trump result"][i]))

likely_voter_polling_average(d) ==
    LET scan == LikelyVoterScan(d, 1, <<>>, <<>>)
        harris_avg == IF scan.harris # <<>> THEN Mean(scan.harris) ELSE Zero
        trump_avg == IF scan.trump # <<>> THEN Mean(scan.trump) ELSE Zero
    IN  IF scan.raised # "none"
        THEN Outcome("likely_voter_polling_average", scan.raised, "", NoPair)
        ELSE Outcome("likely_voter_polling_average", "none", "", <<harris_avg, trump_avg>>)

\* A division by len() of an empty window raises ZeroDivisionError.
polling_history_change(d) ==
    LET harris_results == d["Harris result"]
        trump_results == d["Trump result"]
        data_count == Len(harris_results)
        early_harris == PySlice(harris_results, 0, Window)
        early_trump == PySlice(trump_results, 0, Window)
        late_harris == PySlice(harris_results, data_count - Window, data_count)
        late_trump == PySlice(trump_results, data_count - Window, Len(trump_results))
    IN  IF data_count < Window
        THEN Outcome("polling_history_change", "none", "", <<Zero, Zero>>)
        ELSE IF early_harris = <<>> \/ early_trump = <<>>
                \/ late_harris = <<>> \/ late_trump = <<>>
        THEN Outcome("polling_history_change", "ZeroDivisionError", "", NoPair)
        ELSE Outcome("polling_history_change", "none", "",
                <<FracSub(Mean(late_harris), Mean(early_harris)),
                  FracSub(Mean(late_trump), Mean(early_trump))>>)

HighestPollingCandidate ==
    /\ pc = "idle"
    /\ last' = highest_polling_candidate(data_dict)
    /\ UNCHANGED <<fileState, fileLines, pc, raw_data, data_dict, idx, builds, firstTable>>

LikelyVoterPollingAverage ==
    /\ pc = "idle"
    /\ last' = likely_voter_polling_average(data_dict)
    /\ UNCHANGED <<fileState, fileLines, pc, raw_data, data_dict, idx, builds, firstTable>>

PollingHistoryChange ==
    /\ pc = "idle"
    /\ last' = polling_history_change(data_dict)
    /\ UNCHANGED <<fileState, fileLines, pc, raw_data, data_dict, idx, builds, firstTable>>

\* ---------------------------------------------------------- specification

Next ==
    \/ Construct
    \/ BuildCall
    \/ BuildRow
    \/ BuildReturn
    \/ HighestPollingCandidate
    \/ LikelyVoterPollingAverage
    \/ PollingHistoryChange

Spec == Init /\ [][Next]_vars

\* ------------------------------------------------------------ properties

Harris == data_dict["Harris result"]

Trump == data_dict["Trump result"]

QueryOps ==
    {"highest_polling_candidate", "likely_voter_polling_average", "polling_history_change"}

\* The input rows by kind, and what a well-formed row converts to.
WellFormedRows == {RowLV, RowRV, RowLower}

WrongCountRows == {RowShort, RowLong, Blank}

Converted(line) ==
    CASE line = RowLV ->
            ("month" :> "Sep" @@ "date" :> 1 @@ "sample" :> 1000
             @@ "sample type" :> "Likely Voters"
             @@ "Harris result" :> 495 @@ "Trump result" :> 450)
      [] line = RowRV ->
            ("month" :> "Aug" @@ "date" :> 30 @@ "sample" :> 200
             @@ "sample type" :> "Registered Voters"
             @@ "Harris result" :> 570 @@ "Trump result" :> 460)
      [] line = RowLower ->
            ("month" :> "Aug" @@ "date" :> 2 @@ "sample" :> 50
             @@ "sample type" :> "likely voters"
             @@ "Harris result" :> 400 @@ "Trump result" :> 570)

\* The table of the well-formed rows among lines 2..end, in file order.
ExpectedTable(raw) ==
    LET rows == IF raw = <<>> THEN <<>>
                ELSE SelectSeq(Tail(raw), LAMBDA l : l \in WellFormedRows)
    IN  [k \in Keys |-> [i \in 1..Len(rows) |-> Converted(rows[i])[k]]]

\* A six-field row in which a numeric field does not convert.
NumericFieldFails(line) ==
    LET f == SplitFields(line)
    IN  /\ Len(f) = NumFields
        /\ \/ ~ParseInt(f[2]).ok
           \/ ~ParseInt(f[3]).ok
           \/ ~ParseFloat(f[5]).ok
           \/ ~ParseFloat(f[6]).ok

\* C1: once build_data_dict has processed the raw lines, the six sequences
\* of the table all have the same length.
LengthInvariant ==
    (pc = "idle" /\ builds >= 1) =>
        \A k1 \in Keys, k2 \in Keys : Len(data_dict[k1]) = Len(data_dict[k2])

\* C2: a loop iteration over a six-field row in which a numeric field fails
\* to convert leaves all six sequences as they were.
SkipInvariant ==
    [][(pc = "build" /\ idx <= Len(raw_data) /\ NumericFieldFails(raw_data[idx]))
        => data_dict' = data_dict]_vars

\* C3: no query raises, whatever the raw lines and the order of the queries.
NoErrorSurfaces ==
    last.op \in QueryOps => last.raised = "none"

\* The value in tenths shown with one decimal place.
OneDecimal(m) == ToString(m \div 10) \o "." \o ToString(m % 10)

Values(xs) == {xs[i] : i \in 1..Len(xs)}

Greatest(S) == CHOOSE v \in S : \A w \in S : w <= v

\* C4: on a non-empty table highest_polling_candidate reports the maximum m
\* of all results as "<m>% (EVEN)" when m is in both candidates' sequences,
\* "Harris: <m>%" when only in Harris's, "Trump: <m>%" when only in Trump's,
\* and never "Error in processing".
TieRule ==
    (last.op = "highest_polling_candidate" /\ Values(Harris) \cup Values(Trump) # {}) =>
        LET m == Greatest(Values(Harris) \cup Values(Trump))
            shown == OneDecimal(m) \o "%"
        IN  /\ last.raised = "none"
            /\ last.str # "Error in processing"
            /\ (m \in Values(Harris) /\ m \in Values(Trump)) => last.str = shown \o " (EVEN)"
            /\ (m \in Values(Harris) /\ m \notin Values(Trump)) => last.str = "Harris: " \o shown
            /\ (m \notin Values(Harris) /\ m \in Values(Trump)) => last.str = "Trump: " \o shown

\* A tie has been reported: the maximum 57.0 is in both sequences.
TieReported ==
    /\ last.op = "highest_polling_candidate"
    /\ 570 \in Values(Harris) /\ 570 \in Values(Trump)
    /\ last.str = "57.0% (EVEN)"

\* C5: with both result sequences empty highest_polling_candidate returns
\* "No polling data available" and does not raise.
NoDataMessage ==
    (last.op = "highest_polling_candidate" /\ Harris = <<>> /\ Trump = <<>>) =>
        (last.raised = "none" /\ last.str = "No polling data available")

\* The query has answered after a build that skipped every data row.
NoDataAfterBuild ==
    /\ last.op = "highest_polling_candidate"
    /\ builds >= 1
    /\ Len(raw_data) >= 2
    /\ Harris = <<>> /\ Trump = <<>>
    /\ last.str = "No polling data available"

RECURSIVE SumOver(_, _)
SumOver(xs, I) ==
    IF I = {} THEN 0
    ELSE LET i == CHOOSE j \in I : TRUE
         IN  xs[i] + SumOver(xs, I \ {i})

\* C6: likely_voter_polling_average returns, per candidate, the mean of the
\* results at the table rows whose trimmed sample type is 'Likely Voters',
\* and (0.0, 0.0) when there is no such row.
LikelyVoterMean ==
    last.op = "likely_voter_polling_average" =>
        LET st == data_dict["sample type"]
            I == {i \in 1..Len(st) : Strip(st[i]) = "Likely Voters"}
        IN  /\ last.raised = "none"
            /\ IF I = {} THEN last.pair = <<Zero, Zero>>
               ELSE last.pair = <<Frac(SumOver(Harris, I), 10 * Cardinality(I)),
                                  Frac(SumOver(Trump, I), 10 * Cardinality(I))>>

\* The first and the last Window entries of a sequence (all of it when it is
\* shorter).
FirstWindow(xs) == SubSeq(xs, 1, IF Len(xs) < Window THEN Len(xs) ELSE Window)

LastWindow(xs) == SubSeq(xs, IF Len(xs) < Window THEN 1 ELSE Len(xs) - Window + 1, Len(xs))

\* C7: polling_history_change returns (0.0, 0.0) on a table of fewer than 30
\* entries, and otherwise, per candidate, the mean of the last 30 entries
\* minus the mean of the first 30 entries.
Windowing ==
    last.op = "polling_history_change" =>
        /\ last.raised = "none"
        /\ IF Len(Harris) < Window THEN last.pair = <<Zero, Zero>>
           ELSE /\ Trump # <<>>
                /\ last.pair = <<FracSub(Mean(LastWindow(Harris)), Mean(FirstWindow(Harris))),
                                 FracSub(Mean(LastWindow(Trump)), Mean(FirstWindow(Trump)))>>

\* C8: when every line after the first is a well-formed row or a row with a
\* field count other than six, the first build on a fresh PollReader leaves
\* exactly the converted well-formed rows among lines 2..end, in file order.
\* The first line is left free: it never contributes, whatever it holds.
TableIsWellFormedRows ==
    (/\ pc = "idle"
     /\ builds = 1
     /\ \A i \in 2..Len(raw_data) : raw_data[i] \in WellFormedRows \cup WrongCountRows) =>
        data_dict = ExpectedTable(raw_data)

\* A build over a first line that parses as data, a wrong-count row and a
\* well-formed row has ended.
BuiltWithSkippedLines ==
    /\ pc = "idle"
    /\ builds = 1
    /\ Len(raw_data) = 3
    /\ raw_data[1] \in WellFormedRows
    /\ raw_data[2] \in WrongCountRows
    /\ raw_data[3] \in WellFormedRows
    /\ Len(data_dict["month"]) = 1

\* C9: constructing a PollReader on an absent or unreadable file does not
\* fail and leaves raw_data empty.
LoaderNeverFails ==
    (pc # "new" /\ fileState # "present") => (pc # "failed" /\ raw_data = <<>>)

\* C10: after the first build_data_dict the table never changes again.
TableImmutable ==
    builds >= 1 => data_dict = firstTable

====
